---- MODULE Spec2Model ----
(***************************************************************************)
(* The explicit-stack evaluator of the PHP interpreter:                    *)
(*   src/src/interpreter/evaluator/evaluator.ts    (Evaluator, run,        *)
(*                                                  evaluate)              *)
(*   src/src/interpreter/evaluator/environment.ts  (Env)                   *)
(*   src/src/interpreter/evaluator/evaluation/offset.ts (evaluateOffset)   *)
(*                                                                         *)
(* JavaScript values are tagged records [t |-> <typeof>, ...].  A string   *)
(* is the tuple of its characters.  A number is kept as a fixed-point      *)
(* integer (with one decimal place 1.5 is 15); 0 and -0 are one value, as  *)
(* === and Map keys treat them.                                            *)
(***************************************************************************)
EXTENDS Integers, Sequences, FiniteSets, TLC

\* ------------------------------------------------------------------------
\* Bounds of the model
\* ------------------------------------------------------------------------
\* calls of evaluate made on one Evaluator from outside run
MaxCalls == 2
\* top-level statements of a program
MaxProg == 2
\* decimal places a number keeps: the value v is the integer v * Scale
FracDigits == 1

\* ------------------------------------------------------------------------
\* JavaScript values
\* ------------------------------------------------------------------------
Undefined == [t |-> "undefined"]
Null == [t |-> "null"]
Bool(b) == [t |-> "boolean", b |-> b]
Num(n) == [t |-> "number", n |-> n, nan |-> FALSE]
NaN == [t |-> "number", n |-> 0, nan |-> TRUE]
Str(s) == [t |-> "string", s |-> s]
\* { type: "IArray", elt: Map }: elt is the sequence of the map's entries
IArray(elt) == [t |-> "object", type |-> "IArray", elt |-> elt]
IObject == [t |-> "object", type |-> "IObject"]

typeof(v) == v.t

Abs(i) == IF i < 0 THEN -i ELSE i

RECURSIVE Pow(_, _)
Pow(b, e) == IF e <= 0 THEN 1 ELSE b * Pow(b, e - 1)

Scale == Pow(10, FracDigits)
IntV(i) == Num(i * Scale)

SubStr(s, from) == SubSeq(s, from, Len(s))

DecDigits == <<"0", "1", "2", "3", "4", "5", "6", "7", "8", "9">>
HexDigits == DecDigits \o <<"a", "b", "c", "d", "e", "f">>
UpperHexDigits == DecDigits \o <<"A", "B", "C", "D", "E", "F">>

\* the value of a digit character in a base, -1 when it is no digit of it
DigitVal(c, base) ==
    LET hit == {i \in 1..base : HexDigits[i] = c \/ UpperHexDigits[i] = c}
    IN  IF hit = {} THEN -1 ELSE (CHOOSE i \in hit : TRUE) - 1

AllDigits(s, base) == \A i \in 1..Len(s) : DigitVal(s[i], base) >= 0

RECURSIVE DigitsVal(_, _)
DigitsVal(s, base) ==
    IF s = <<>> THEN 0
    ELSE DigitsVal(SubSeq(s, 1, Len(s) - 1), base) * base + DigitVal(s[Len(s)], base)

\* StrUnsignedDecimalLiteral: digits [. digits] [e [+-] digits] | . digits [...]
\* read one character at a time; ph is the part being read, m the digits of
\* the mantissa, nd and nf how many of them there are in all and after the
\* dot, ev the exponent and es its sign
DecimalStart ==
    [ph |-> "int", m |-> 0, nd |-> 0, nf |-> 0, es |-> 1, ev |-> 0, ok |-> TRUE]

DecimalStep(st, c) ==
    LET d == DigitVal(c, 10)
    IN  CASE st.ph = "int" /\ d >= 0 -> [st EXCEPT !.m = @ * 10 + d, !.nd = @ + 1]
          [] st.ph = "int" /\ c = "." -> [st EXCEPT !.ph = "frac"]
          [] st.ph = "frac" /\ d >= 0 ->
                [st EXCEPT !.m = @ * 10 + d, !.nd = @ + 1, !.nf = @ + 1]
          [] st.ph \in {"int", "frac"} /\ c \in {"e", "E"} -> [st EXCEPT !.ph = "exp0"]
          [] st.ph = "exp0" /\ c = "+" -> [st EXCEPT !.ph = "exp1"]
          [] st.ph = "exp0" /\ c = "-" -> [st EXCEPT !.ph = "exp1", !.es = -1]
          [] st.ph \in {"exp0", "exp1", "exp"} /\ d >= 0 ->
                [st EXCEPT !.ph = "exp", !.ev = @ * 10 + d]
          [] OTHER -> [st EXCEPT !.ok = FALSE]

RECURSIVE DecimalScan(_, _)
DecimalScan(st, s) ==
    IF s = <<>> THEN st ELSE DecimalScan(DecimalStep(st, s[1]), Tail(s))

\* m * 10^e as a fixed-point number; what is finer than the decimal places
\* kept is cut off
ScaleBy(m, e) ==
    IF e + FracDigits >= 0 THEN Num(m * Pow(10, e + FracDigits))
    ELSE Num(m \div Pow(10, -(e + FracDigits)))

DecimalValue(st) ==
    IF st.ok /\ st.nd > 0 /\ st.ph \in {"int", "frac", "exp"}
    THEN ScaleBy(st.m, st.es * st.ev - st.nf)
    ELSE NaN

UnsignedDecimal(s) == DecimalValue(DecimalScan(DecimalStart, s))

Negate(v) == IF v.nan THEN v ELSE Num(-v.n)

\* the digits after 0x, 0b or 0o
PrefixedValue(ds, base) ==
    IF ds # <<>> /\ AllDigits(ds, base) THEN IntV(DigitsVal(ds, base)) ELSE NaN

\* Number(string): the StringToNumber grammar of the host language
StringToNumber(s) ==
    IF s = <<>> THEN Num(0)
    ELSE IF Len(s) >= 2 /\ s[1] = "0" /\ s[2] \in {"x", "X", "b", "B", "o", "O"}
    THEN PrefixedValue(SubStr(s, 3), CASE s[2] \in {"x", "X"} -> 16
                                       [] s[2] \in {"b", "B"} -> 2
                                       [] OTHER -> 8)
    ELSE IF s[1] = "-" THEN Negate(UnsignedDecimal(Tail(s)))
    ELSE IF s[1] = "+" THEN UnsignedDecimal(Tail(s))
    ELSE UnsignedDecimal(s)

\* Number(v)
Number(v) ==
    CASE v.t = "number" -> v
      [] v.t = "boolean" -> IF v.b THEN IntV(1) ELSE IntV(0)
      [] v.t = "string" -> StringToNumber(v.s)
      [] v.t = "null" -> IntV(0)
      [] OTHER -> NaN

\* Boolean(v)
Boolean(v) ==
    CASE v.t = "boolean" -> v
      [] v.t = "number" -> Bool(~v.nan /\ v.n # 0)
      [] v.t = "string" -> Bool(v.s # <<>>)
      [] v.t = "object" -> Bool(TRUE)
      [] OTHER -> Bool(FALSE)

RECURSIVE NatToChars(_)
NatToChars(i) ==
    IF i < 10 THEN <<DecDigits[i + 1]>>
    ELSE NatToChars(i \div 10) \o <<DecDigits[(i % 10) + 1]>>

\* the digits of the fraction f, d places wide, without trailing zeros
RECURSIVE FracChars(_, _)
FracChars(f, d) ==
    IF f = 0 \/ d <= 0 THEN <<>>
    ELSE <<DecDigits[(f \div Pow(10, d - 1)) + 1]>> \o FracChars(f % Pow(10, d - 1), d - 1)

\* Number.prototype.toString
NumberToChars(v) ==
    IF v.nan THEN <<"N", "a", "N">>
    ELSE (IF v.n < 0 THEN <<"-">> ELSE <<>>)
         \o NatToChars(Abs(v.n) \div Scale)
         \o (IF Abs(v.n) % Scale = 0 THEN <<>>
             ELSE <<".">> \o FracChars(Abs(v.n) % Scale, FracDigits))

\* String(v)
String(v) ==
    CASE v.t = "string" -> v
      [] v.t = "number" -> Str(NumberToChars(v))
      [] v.t = "boolean" -> Str(IF v.b THEN <<"t", "r", "u", "e">>
                                       ELSE <<"f", "a", "l", "s", "e">>)
      [] v.t = "null" -> Str(<<"n", "u", "l", "l">>)
      [] v.t = "undefined" -> Str(<<"u", "n", "d", "e", "f", "i", "n", "e", "d">>)
      [] OTHER -> Str(<<"[", "o", "b", "j", "e", "c", "t", "]">>)

\* Math.trunc
MathTrunc(v) ==
    IF v.nan THEN v
    ELSE Num((IF v.n < 0 THEN -1 ELSE 1) * ((Abs(v.n) \div Scale) * Scale))

\* mutant: /^(|-?[0-9]+)$/, leading zeros pass
validDecIntLeadingZeros(s) ==
    \/ s = <<>>
    \/ s # <<>> /\ s[1] # "-" /\ AllDigits(s, 10)
    \/ Len(s) >= 2 /\ s[1] = "-" /\ AllDigits(SubStr(s, 2), 10)

\* /^(|[-]?0|-[1-9][0-9]*)$/.test(s)
validDecInt(s) ==
    \/ s = <<>>
    \/ s = <<"0">>
    \/ s = <<"-", "0">>
    \/ /\ Len(s) >= 2
       /\ s[1] = "-"
       /\ DigitVal(s[2], 10) >= 1
       /\ AllDigits(SubStr(s, 3), 10)

\* ------------------------------------------------------------------------
\* AST nodes (php-parser), stack items, locations
\* ------------------------------------------------------------------------
\* a field that is absent or false
NoNode == [kind |-> "undefined"]
NumberNode(s) == [kind |-> "number", value |-> Str(s)]
StringNode(s) == [kind |-> "string", value |-> Str(s)]
BooleanNode(b) == [kind |-> "boolean", value |-> Bool(b)]
VariableNode(n) == [kind |-> "variable", name |-> n, byref |-> FALSE]
KindNode(k) == [kind |-> k]
ExpressionStatement(e) == [kind |-> "expressionstatement", expression |-> e]
OffsetLookup(what, offset) == [kind |-> "offsetlookup", what |-> what, offset |-> offset]

\* node.name and node.byref of a node that may lack them
NodeName(n) == IF "name" \in DOMAIN n THEN Str(<<n.name>>) ELSE Undefined
NodeByref(n) == "byref" \in DOMAIN n /\ n.byref

\* ILocation: loc.type is read with typeof and compared with type names
Loc(type, idx, vstoreId) ==
    [type |-> type, idx |-> idx, vstoreId |-> vstoreId, offset |-> Undefined]

NoInst == "undefined"

\* IStkNode { val?, loc?, inst?, node? }
IStkNode(node, inst, val, loc) == [node |-> node, inst |-> inst, val |-> val, loc |-> loc]
NodeItem(node, inst) == IStkNode(node, inst, Undefined, Undefined)
ValItem(val) == IStkNode(NoNode, NoInst, val, Undefined)
LocItem(loc) == IStkNode(NoNode, NoInst, Undefined, loc)
EmptyItem == IStkNode(NoNode, NoInst, Undefined, Undefined)

\* ------------------------------------------------------------------------
\* Env
\* ------------------------------------------------------------------------
\* mutant: the global environment encloses itself
EnvNewOwnOuter ==
    [idx |-> 0,
     env |-> [i \in {0} |->
        [bind |-> [hstore |-> {}, vslot |-> {}, vstore |-> {}],
         encls |-> [class |-> <<>>, closure |-> <<>>, function |-> <<>>, namespace |-> <<>>],
         init |-> Null,
         meta |-> Null,
         name |-> "global",
         outer |-> IntV(0),
         stati |-> Null,
         type |-> "global"]]]

\* new Env(): env[0] is the global environment, idx = 0
EnvNew ==
    [idx |-> 0,
     env |-> [i \in {0} |->
        [bind |-> [hstore |-> {}, vslot |-> {}, vstore |-> {}],
         encls |-> [class |-> <<>>, closure |-> <<>>, function |-> <<>>, namespace |-> <<>>],
         init |-> Null,
         meta |-> Null,
         name |-> "global",
         outer |-> Null,
         stati |-> Null,
         type |-> "global"]]]

\* ------------------------------------------------------------------------
\* The evaluator as a record [stk, env, log, err]; log is what the running
\* handler has done so far, err the error it has thrown
\* ------------------------------------------------------------------------
NoErr == [msg |-> "", arg |-> ""]
Ev(e, s, item, v, w) == [e |-> e, s |-> s, item |-> item, v |-> v, w |-> w]

Thrown(m) == m.err # NoErr

Throw(m, msg, arg) ==
    [m EXCEPT !.err = [msg |-> msg, arg |-> arg],
              !.log = Append(@, Ev("throw", msg, EmptyItem, Undefined, Undefined))]

\* reading a property of undefined
TypeError(m) == Throw(m, "TypeError", "")

\* console.error(msg + v)
Diag(m, msg, v) == [m EXCEPT !.log = Append(@, Ev("diag", msg, EmptyItem, v, Undefined))]

Called(m, f) == [m EXCEPT !.log = Append(@, Ev("call", f, EmptyItem, Undefined, Undefined))]

\* Stack.push, Stack.top.value, Stack.pop
Push(m, item) ==
    [m EXCEPT !.stk = Append(@, item),
              !.log = Append(@, Ev("push", "", item, Undefined, Undefined))]
Top(m) == m.stk[Len(m.stk)]
Pop(m) ==
    [m EXCEPT !.stk = SubSeq(@, 1, Len(@) - 1),
              !.log = Append(@, Ev("pop", "", m.stk[Len(m.stk)], Undefined, Undefined))]

\* ------------------------------------------------------------------------
\* The sub-evaluators evaluateAssign, evaluateVariable, evaluateArray and
\* evaluateGlobal: each finds its own node on top of the stack, pops it and
\* pushes one item, the result r; evaluateVariable declares an unbound name
\* in the current environment.
\* ------------------------------------------------------------------------
Bound(env, name) == \E e \in env.env[env.idx].bind.vslot : e.name = name

Bind(env, name, id) ==
    [env EXCEPT !.env[env.idx].bind.vslot = @ \cup {[name |-> name, id |-> id]},
                !.env[env.idx].bind.vstore = @ \cup {[id |-> id, val |-> Null]}]

Declare(env, name) ==
    IF Bound(env, name) THEN env
    ELSE Bind(env, name, Cardinality(env.env[env.idx].bind.vstore))

DeclareNode(m, f, node) ==
    IF f = "evaluateVariable" /\ "name" \in DOMAIN node
    THEN [m EXCEPT !.env = Declare(@, node.name)] ELSE m

SubEvaluator(m, f, r) ==
    IF m.stk = <<>> THEN TypeError(Called(m, f))
    ELSE Push(DeclareNode(Pop(Called(m, f)), f, Top(m).node), r)

evaluateAssign(m, r) == SubEvaluator(m, "evaluateAssign", r)
evaluateVariable(m, r) == SubEvaluator(m, "evaluateVariable", r)
evaluateArray(m, r) == SubEvaluator(m, "evaluateArray", r)
evaluateGlobal(m, r) == SubEvaluator(m, "evaluateGlobal", r)

\* ------------------------------------------------------------------------
\* Evaluator.prototype.evaluate; r is what the sub-evaluator it delegates to
\* (if it does) pushes
\* ------------------------------------------------------------------------
\* mutant: the literal is pushed for evaluation like the other expressions
StatementLiteralEvaluated(m, expr) == Push(m, NodeItem(expr.expression, NoInst))

\* case "array", "number", "string", "boolean": break (evaluator.ts 111-115)
StatementLiteral(m, expr) == m

\* the switch on the expression of a statement (evaluator.ts 107-135)
DispatchStatement(m, expr, r) ==
    CASE expr.expression.kind \in {"array", "number", "string", "boolean"} ->
            StatementLiteral(m, expr)
      [] expr.expression.kind = "assign" ->
            evaluateAssign(Push(m, NodeItem(expr.expression, NoInst)), r)
      [] expr.expression.kind = "variable" ->
            evaluateVariable(Push(m, NodeItem(expr.expression, NoInst)), r)
      [] OTHER -> m

\* the literals, evaluated directly (evaluator.ts 136-153)
EvaluateBoolean(m, expr) == Push(m, ValItem(Boolean(expr.value)))
\* mutant: the value is computed and never pushed
EvaluateNumberNoPush(m, expr) == m
EvaluateNumber(m, expr) == Push(m, ValItem(Number(expr.value)))
EvaluateString(m, expr) == Push(m, ValItem(String(expr.value)))

\* the dispatch on the popped node expr (evaluator.ts 106-180)
Dispatch(m, expr, r) ==
    IF expr = NoNode THEN TypeError(m)
    ELSE IF expr.kind = "expressionstatement" THEN DispatchStatement(m, expr, r)
    ELSE IF expr.kind = "boolean" THEN EvaluateBoolean(m, expr)
    ELSE IF expr.kind = "number" THEN EvaluateNumber(m, expr)
    ELSE IF expr.kind = "string" THEN EvaluateString(m, expr)
    ELSE IF expr.kind = "assign" THEN evaluateAssign(Push(m, NodeItem(expr, NoInst)), r)
    ELSE IF expr.kind = "variable" THEN evaluateVariable(Push(m, NodeItem(expr, NoInst)), r)
    ELSE IF expr.kind = "array" THEN evaluateArray(Push(m, NodeItem(expr, NoInst)), r)
    ELSE IF expr.kind = "global" THEN evaluateGlobal(Push(m, NodeItem(expr, NoInst)), r)
    ELSE Throw(m, "Eval Error: Unknown expression type: ", expr.kind)

evaluate(m, r) ==
    IF m.stk = <<>> THEN TypeError(Called(m, "evaluate"))
    ELSE Dispatch(Pop(Called(m, "evaluate")), Top(m).node, r)

\* whether evaluate of this node calls a sub-evaluator
Delegates(node) ==
    \/ node.kind \in {"assign", "variable", "array", "global"}
    \/ node.kind = "expressionstatement" /\ node.expression.kind \in {"assign", "variable"}

\* ------------------------------------------------------------------------
\* Evaluator.prototype.evaluateOffset
\* ------------------------------------------------------------------------
Falsy(node) == node = NoNode

\* mutant: a number key is kept as the string of its integer part
ReadSwitchStringKeys(k) ==
    CASE typeof(k) = "boolean" -> Number(k)
      [] typeof(k) = "string" -> IF validDecInt(k.s) THEN Number(k) ELSE k
      [] typeof(k) = "number" -> String(MathTrunc(k))
      [] OTHER -> k

\* the switch on typeof offsetName of READ mode (offset.ts 74-93)
ReadSwitch(k) ==
    CASE typeof(k) = "boolean" -> Number(k)
      [] typeof(k) = "string" -> IF validDecInt(k.s) THEN Number(k) ELSE k
      [] typeof(k) = "number" -> MathTrunc(k)
      [] OTHER -> k

\* the switch on typeof offsetName of WRITE mode (offset.ts 162-181)
WriteSwitch(k) ==
    CASE typeof(k) = "boolean" -> Number(k)
      [] typeof(k) = "string" -> IF validDecInt(k.s) THEN Number(k) ELSE k
      [] typeof(k) = "number" -> MathTrunc(k)
      [] OTHER -> k

IllegalOffsetType(k) == typeof(k) \notin {"number", "boolean", "string"}

\* the key normalization of READ mode (offset.ts 68-94): [key, warn, notice]
NormalizeRead(offsetName) ==
    IF offsetName # Undefined
    THEN [warn |-> IllegalOffsetType(offsetName), notice |-> FALSE,
          key |-> ReadSwitch(IF IllegalOffsetType(offsetName) THEN Str(<<>>)
                             ELSE offsetName)]
    ELSE [warn |-> FALSE, notice |-> FALSE, key |-> offsetName]

\* the key normalization of WRITE mode (offset.ts 156-186): [key, warn, notice]
NormalizeWrite(offsetName) ==
    IF offsetName # Undefined
    THEN [warn |-> IllegalOffsetType(offsetName), notice |-> FALSE,
          key |-> WriteSwitch(IF IllegalOffsetType(offsetName) THEN Str(<<>>)
                              ELSE offsetName)]
    ELSE [warn |-> FALSE, notice |-> TRUE, key |-> Str(<<>>)]

\* the diagnostics of a normalization; the "key" entry of the log holds the
\* locals once the key is settled: derefNode, offsetName and keyNode.val
Normalized(m, mode, offsetNode, derefNode, raw, norm) ==
    [m EXCEPT !.log =
        @ \o (IF norm.warn
              THEN <<Ev("diag", "Warning: Illegal offset type ", EmptyItem, raw, Undefined)>>
              ELSE <<>>)
          \o (IF norm.notice
              THEN <<Ev("diag", "Notice: Undefined variable ", EmptyItem,
                        NodeName(offsetNode.node.offset), Undefined)>>
              ELSE <<>>)
          \o <<Ev("key", mode, derefNode, norm.key, raw)>>]

\* offsetName < 0
Negative(k) == typeof(k) = "number" /\ ~k.nan /\ k.n < 0

\* offsetName += str.length
AddLength(k, str) == Num(k.n + Len(str) * Scale)

\* str[offsetName]
CharAt(str, k) ==
    IF /\ typeof(k) = "number" /\ ~k.nan /\ k.n % Scale = 0
       /\ k.n \div Scale >= 0 /\ k.n \div Scale < Len(str)
    THEN Str(<<str[(k.n \div Scale) + 1]>>)
    ELSE Undefined

\* Map.size and Map.get on the entries of an array
MapSize(elt) == Len(elt)
MapGet(elt, k) ==
    IF \E i \in 1..Len(elt) : elt[i].k = k
    THEN elt[CHOOSE i \in 1..Len(elt) : elt[i].k = k].v
    ELSE Undefined

\* a string key on a string base is the key 0 (offset.ts 106-108)
StringKey(offsetName) == IF typeof(offsetName) = "string" THEN IntV(0) ELSE offsetName

\* mutant: a negative key is not counted from the end
PositionFromStart(str, offsetName) == offsetName

\* the position a key designates in str (offset.ts 110-113)
Position(str, offsetName) ==
    IF Negative(offsetName) THEN AddLength(offsetName, str) ELSE offsetName

\* the read of str at the position (offset.ts 114-119)
ReadCharAt(m, str, position) ==
    Push(IF CharAt(str, position) = Undefined
         THEN Diag(m, "Notice: Uninitialized string offset ", position) ELSE m,
         ValItem(CharAt(str, position)))

\* READ, a string base (offset.ts 99-119)
ReadString(m, offsetNode, derefNode, offsetName) ==
    IF NodeByref(offsetNode.node.what)
    THEN Throw(m, "Fatal error:  Uncaught Error: Cannot create references to/from string offsets.", "")
    ELSE ReadCharAt(m, derefNode.val.s, Position(derefNode.val.s, StringKey(offsetName)))

\* mutant: the read of an absent key creates its slot
ReadArrayVivify(m, derefNode, offsetName) ==
    IF MapSize(derefNode.val.elt) = 0 \/ MapGet(derefNode.val.elt, offsetName) = Undefined
    THEN Push(Diag([m EXCEPT !.env = Bind(@, "", Cardinality(@.env[@.idx].bind.vstore))],
                   "Notice: Undefined offset: ", offsetName), ValItem(Null))
    ELSE Push(m, ValItem(MapGet(derefNode.val.elt, offsetName)))

\* READ, an array base (offset.ts 120-129)
ReadArray(m, derefNode, offsetName) ==
    IF MapSize(derefNode.val.elt) = 0 \/ MapGet(derefNode.val.elt, offsetName) = Undefined
    THEN Push(Diag(m, "Notice: Undefined offset: ", offsetName), ValItem(Null))
    ELSE Push(m, ValItem(MapGet(derefNode.val.elt, offsetName)))

\* READ, the dispatch on the type of the base (offset.ts 95-134)
ReadBase(m, offsetNode, derefNode, offsetName) ==
    IF typeof(derefNode.val) \in {"boolean", "number"} THEN Push(m, ValItem(Null))
    ELSE IF typeof(derefNode.val) = "string"
    THEN ReadString(m, offsetNode, derefNode, offsetName)
    ELSE IF typeof(derefNode.val) = "object" /\ derefNode.val.type = "IArray"
    THEN ReadArray(m, derefNode, offsetName)
    ELSE IF typeof(derefNode.val) = "object" /\ derefNode.val.type = "IObject" THEN m
    ELSE Throw(m, "Eval error: undefined dereferencable-expression type in reading offset", "")

\* READ, the key: m is the evaluator after evaluate() of the offset
\* (offset.ts 67-94)
ReadKey(m, offsetNode, derefNode) ==
    IF Thrown(m) THEN m
    ELSE IF m.stk = <<>> THEN TypeError(m)
    ELSE ReadBase(Normalized(Pop(m), "READ", offsetNode, derefNode, Top(m).val,
                             NormalizeRead(Top(m).val)),
                  offsetNode, derefNode, NormalizeRead(Top(m).val).key)

\* READ, the base popped as derefNode (offset.ts 53-66)
ReadDeref(m, offsetNode, derefNode, r2) ==
    IF derefNode.val = Undefined
    THEN Push(Diag(m, "Notice: Undefined variable ", NodeName(offsetNode.node.what)),
              ValItem(Null))
    ELSE IF derefNode.val = Null THEN Push(m, ValItem(Null))
    ELSE ReadKey(evaluate(m, r2), offsetNode, derefNode)

\* m is the evaluator after evaluate() of the base (offset.ts 52 and 148)
PopDeref(m) == IF Thrown(m) THEN m ELSE IF m.stk = <<>> THEN TypeError(m) ELSE Pop(m)

\* the pushes of the offset and of the base (offset.ts 45-49 and 141-145)
PushOperands(m, offsetNode, inst) ==
    Push(IF ~Falsy(offsetNode.node.offset)
         THEN Push(m, NodeItem(offsetNode.node.offset, "READ")) ELSE m,
         NodeItem(offsetNode.node.what, inst))

\* the READ branch (offset.ts 40-135); r1 and r2 are what the sub-evaluators
\* of the base and of the offset push
ReadAfterBase(m, offsetNode, r2) ==
    IF Thrown(m) \/ m.stk = <<>> THEN PopDeref(m)
    ELSE ReadDeref(Pop(m), offsetNode, Top(m), r2)

OffsetRead(m, offsetNode, r1, r2) ==
    ReadAfterBase(evaluate(PushOperands(m, offsetNode, "READ"), r1), offsetNode, r2)

\* WRITE, the dispatch on the location of the base (offset.ts 191-237)
WriteLocation(m, offsetNode, loc) ==
    \* derefNode.loc.type of an item without loc
    IF loc = Undefined THEN TypeError(m)
    ELSE IF typeof(loc.type) \in {"boolean", "number"}
    THEN Push(Diag(m, "Warning:  Cannot use a scalar value as an array", Undefined), EmptyItem)
    ELSE IF typeof(loc.type) = "string" THEN
        IF NodeByref(offsetNode.node.what)
        THEN Throw(m, "Fatal error:  Uncaught Error: Cannot create references to/from string offsets.", "")
        \* this.env.get: Env has no method get
        ELSE TypeError(m)
    \* loc.type === "array", "object", "null": loc.type is no string here, so
    \* none of the three holds
    ELSE Throw(m, "Eval error: undefined type dereferencable-expression in writing offset", "")

\* WRITE, the key: m is the evaluator after evaluate() of the offset
\* (offset.ts 151-189)
WriteKey(m, offsetNode, derefNode) ==
    IF Thrown(m) THEN m
    ELSE IF Falsy(offsetNode.node.offset)
    THEN WriteLocation([m EXCEPT !.log =
                           Append(@, Ev("key", "WRITE", derefNode, IntV(0), Undefined))],
                       offsetNode, derefNode.loc)
    ELSE IF m.stk = <<>> THEN TypeError(m)
    ELSE WriteLocation(Normalized(Pop(m), "WRITE", offsetNode, derefNode, Top(m).val,
                                  NormalizeWrite(Top(m).val)),
                       offsetNode, derefNode.loc)

\* WRITE, the base popped as derefNode (offset.ts 148-155)
WriteDeref(m, offsetNode, derefNode, r2) ==
    WriteKey(IF ~Falsy(offsetNode.node.offset) THEN evaluate(m, r2) ELSE m,
             offsetNode, derefNode)

WriteAfterBase(m, offsetNode, r2) ==
    IF Thrown(m) \/ m.stk = <<>> THEN PopDeref(m)
    ELSE WriteDeref(Pop(m), offsetNode, Top(m), r2)

\* the WRITE branch (offset.ts 136-237)
OffsetWrite(m, offsetNode, r1, r2) ==
    WriteAfterBase(evaluate(PushOperands(m, offsetNode, "WRITE"), r1), offsetNode, r2)

\* mutant: only an explicit READ is refused
ReadsEmptySubscriptExplicit(offsetNode) ==
    offsetNode.inst = "READ" /\ Falsy(offsetNode.node.offset)

\* (inst === undefined || inst !== "WRITE") && !offset (offset.ts 32-33)
ReadsEmptySubscript(offsetNode) ==
    (offsetNode.inst = NoInst \/ offsetNode.inst # "WRITE") /\ Falsy(offsetNode.node.offset)

\* the checks on the popped item and the branch on its inst (offset.ts 27-40,
\* 136, 238-240)
OffsetDispatch(m, offsetNode, r1, r2) ==
    IF offsetNode.node = NoNode THEN TypeError(m)
    ELSE IF offsetNode.node.kind # "offsetlookup"
    THEN Throw(m, "Eval Error: Evaluate wrong AST node: ", offsetNode.node.kind)
    ELSE IF ReadsEmptySubscript(offsetNode)
    THEN Throw(m, "Fatal error:  Cannot use [] for reading.", "")
    ELSE IF offsetNode.inst = "READ" THEN OffsetRead(m, offsetNode, r1, r2)
    ELSE IF offsetNode.inst = "WRITE" THEN OffsetWrite(m, offsetNode, r1, r2)
    ELSE Throw(m, "Eval error: instruction in offset Node", offsetNode.inst)

evaluateOffset(m, r1, r2) ==
    IF m.stk = <<>> THEN TypeError(Called(m, "evaluateOffset"))
    ELSE OffsetDispatch(Pop(Called(m, "evaluateOffset")), Top(m), r1, r2)

\* ------------------------------------------------------------------------
\* Inputs
\* ------------------------------------------------------------------------
\* spellings of number literals
Spellings ==
    {<<"1", "3", "3", "7">>, <<"0", "x", "5", "3", "9">>, <<"0", "2", "4", "7", "1">>,
     <<"0", "b", "1", "0", "1", "0", "0", "1", "1", "1", "0", "0", "1">>,
     <<"1", "3", "3", "7", "e", "0">>, <<"8">>, <<"0", "1", "0">>, <<"1", ".", "5">>}

\* what a sub-evaluator may push: a value or a location
SubResults ==
    {ValItem(v) : v \in {Undefined, Null, IntV(1), Str(<<"a", "b", "c">>), IObject,
                         IArray(<<>>), IArray(<<[k |-> IntV(0), v |-> Str(<<"x">>)]>>)}}
    \cup {LocItem(Loc(type, 0, 0)) :
            type \in {Str(<<"array">>), Str(<<"null">>), Str(<<"number">>),
                      Str(<<"object">>), IntV(1)}}

\* the ones tried where the result is only carried along
FewResults == {ValItem(Null), ValItem(IntV(1)), LocItem(Loc(Str(<<"array">>), 0, 0))}

ResultsFor(node, R) == IF Delegates(node) THEN R ELSE {EmptyItem}

\* what the sub-evaluator of an operand (what, offset) of a lookup may push
OperandResults(node, operand) ==
    IF node.kind = "offsetlookup" THEN ResultsFor(node[operand], SubResults) ELSE {EmptyItem}

Literals ==
    {NumberNode(<<"1">>), StringNode(<<"a", "b", "c">>), BooleanNode(TRUE)}

\* nodes evaluate is called on
EvalNodes ==
    {NumberNode(s) : s \in Spellings}
    \cup {StringNode(<<"a", "b", "c">>), StringNode(<<>>), BooleanNode(TRUE), BooleanNode(FALSE)}
    \cup {VariableNode("a"), KindNode("assign"), KindNode("array"), KindNode("global"),
          KindNode("call"), OffsetLookup(VariableNode("a"), NoNode)}
    \cup {ExpressionStatement(e) :
            e \in Literals \cup {KindNode("array"), KindNode("assign"), VariableNode("a"),
                                 KindNode("call"), OffsetLookup(VariableNode("a"), NoNode)}}

EvalItems ==
    {NodeItem(n, NoInst) : n \in EvalNodes}
    \cup {NodeItem(VariableNode("a"), "WRITE"), ValItem(IntV(1))}

\* subscripts: none, literals, a variable
OffsetNodes ==
    {NoNode, VariableNode("b"), BooleanNode(TRUE), BooleanNode(FALSE)}
    \cup {StringNode(k) : k \in {<<>>, <<"0">>, <<"-", "0">>, <<"0", "8">>, <<"-", "1">>,
                                 <<"1", "0">>, <<"a">>}}
    \cup {NumberNode(k) : k \in {<<"0">>, <<"2">>, <<"3">>, <<"-", "1">>, <<"-", "1", "0">>,
                                 <<"1", ".", "5">>, <<"-", "1", ".", "5">>}}

\* dereferenced expressions
WhatNodes ==
    {StringNode(<<"a", "b", "c">>), NumberNode(<<"1">>), VariableNode("a"),
     OffsetLookup(VariableNode("a"), NoNode)}

\* items evaluateOffset is called on
OffsetItems ==
    {NodeItem(OffsetLookup(w, o), inst) :
        w \in WhatNodes, o \in OffsetNodes, inst \in {"READ", "WRITE"}}
    \cup {NodeItem(OffsetLookup(w, o), NoInst) :
            w \in {StringNode(<<"a", "b", "c">>)}, o \in {NoNode, NumberNode(<<"0">>)}}
    \cup {NodeItem(VariableNode("a"), "READ"), ValItem(IntV(1))}

\* top-level statements
Statements ==
    {ExpressionStatement(e) :
        e \in {NumberNode(<<"1">>), KindNode("assign"), VariableNode("a"), KindNode("call")}}
    \cup {KindNode("global"), KindNode("echo")}

RECURSIVE Programs(_)
Programs(n) ==
    IF n = 0 THEN {<<>>}
    ELSE LET P == Programs(n - 1)
         IN  P \cup {Append(p, st) : p \in P, st \in Statements}

\* ------------------------------------------------------------------------
\* State
\* ------------------------------------------------------------------------
VARIABLES
    ast,     \* Evaluator.ast: the children of the Program node
    env,     \* Evaluator.env
    stk,     \* Evaluator.stk, bottom first
    log,     \* what the last handler did, in order
    err,     \* the error the last handler threw, NoErr if none
    pre,     \* [stk, env] when the last handler started
    phase,   \* "idle", "run" (inside run's forEach), "done", "aborted"
    pos,     \* the children run has evaluated
    ncalls   \* calls of evaluate made from outside run, directly or through
             \* evaluateOffset (which makes up to two)

vars == <<ast, env, stk, log, err, pre, phase, pos, ncalls>>

\* the evaluator at the start of a handler
M == [stk |-> stk, env |-> env, log |-> <<>>, err |-> NoErr]

Becomes(m) ==
    /\ stk' = m.stk
    /\ env' = m.env
    /\ log' = m.log
    /\ err' = m.err

\* new Evaluator(ast)
Constructed ==
    /\ env = EnvNew
    /\ stk = <<>>
    /\ log = <<>>
    /\ err = NoErr
    /\ pre = [stk |-> <<>>, env |-> EnvNew]
    /\ phase = "idle"
    /\ pos = 0
    /\ ncalls = 0

Init ==
    /\ ast \in {<<>>, <<ExpressionStatement(VariableNode("a")),
                        ExpressionStatement(NumberNode(<<"1">>))>>}
    /\ Constructed

InitRun ==
    /\ ast \in Programs(MaxProg)
    /\ Constructed

\* run(): enter the forEach
Run ==
    /\ phase = "idle"
    /\ err = NoErr
    /\ phase' = "run"
    /\ pos' = 0
    /\ pre' = [stk |-> stk, env |-> env]
    /\ log' = <<Ev("call", "run", EmptyItem, Undefined, Undefined)>>
    /\ UNCHANGED <<ast, env, stk, err, ncalls>>

\* the forEach callback on the next child
RunChild ==
    /\ phase = "run"
    /\ pos < Len(ast)
    /\ \E r \in ResultsFor(ast[pos + 1], FewResults) :
         Becomes(evaluate(Push(M, IStkNode(ast[pos + 1], NoInst, Undefined, Undefined)), r))
    /\ phase' = IF err' # NoErr THEN "aborted" ELSE "run"
    /\ pos' = pos + 1
    /\ pre' = [stk |-> stk, env |-> env]
    /\ UNCHANGED <<ast, ncalls>>

\* run() returns
RunReturn ==
    /\ phase = "run"
    /\ pos = Len(ast)
    /\ phase' = "done"
    /\ pre' = [stk |-> stk, env |-> env]
    /\ log' = <<Ev("return", "run", EmptyItem, Undefined, Undefined)>>
    /\ UNCHANGED <<ast, env, stk, err, pos, ncalls>>

CanCall ==
    /\ phase \in {"idle", "done"}
    /\ err = NoErr
    /\ ncalls < MaxCalls

\* a caller pushes an item and calls evaluate()
CallEvaluate ==
    /\ CanCall
    /\ \E item \in EvalItems : \E r \in ResultsFor(item.node, FewResults) :
         Becomes(evaluate(Push(M, item), r))
    /\ pre' = [stk |-> stk, env |-> env]
    /\ ncalls' = ncalls + 1
    /\ UNCHANGED <<ast, phase, pos>>

\* a caller pushes an item and calls evaluateOffset()
CallEvaluateOffset ==
    /\ CanCall
    /\ ncalls + 2 <= MaxCalls
    /\ \E item \in OffsetItems :
         \E r1 \in OperandResults(item.node, "what") :
            \E r2 \in OperandResults(item.node, "offset") :
                Becomes(evaluateOffset(Push(M, item), r1, r2))
    /\ pre' = [stk |-> stk, env |-> env]
    /\ ncalls' = ncalls + 2
    /\ UNCHANGED <<ast, phase, pos>>

Next ==
    \/ Run
    \/ RunChild
    \/ RunReturn
    \/ CallEvaluate
    \/ CallEvaluateOffset

Spec == Init /\ [][Next]_vars

NextRun ==
    \/ Run
    \/ RunChild
    \/ RunReturn

SpecRun == InitRun /\ [][NextRun]_vars

\* ------------------------------------------------------------------------
\* What the last handler was and did
\* ------------------------------------------------------------------------
\* the caller pushed an item and called f, which popped it
Handled(f) ==
    /\ Len(log) >= 3
    /\ log[1].e = "push"
    /\ log[2].e = "call" /\ log[2].s = f
    /\ log[3].e = "pop"

\* the item the handler popped first
Popped == log[3].item

\* the entries of the log after the first pop that are e
After(e) == {i \in 4..Len(log) : log[i].e = e}

KeyEvents == {i \in 1..Len(log) : log[i].e = "key"}

DiagEvents(msg) == {i \in 1..Len(log) : log[i].e = "diag" /\ log[i].s = msg}

StatementOf(kinds) ==
    /\ Popped.node.kind = "expressionstatement"
    /\ Popped.node.expression.kind \in kinds

CannotUseForReading == "Fatal error:  Cannot use [] for reading."
UnknownExpressionType == "Eval Error: Unknown expression type: "
UninitializedStringOffset == "Notice: Uninitialized string offset "

\* ------------------------------------------------------------------------
\* C1
\* ------------------------------------------------------------------------
\* evaluate on a node it does not delegate: a literal, or a statement whose
\* expression is neither assign nor variable
NotDelegated ==
    /\ Handled("evaluate")
    /\ err = NoErr
    /\ \/ Popped.node.kind \in {"boolean", "number", "string"}
       \/ /\ Popped.node.kind = "expressionstatement"
          /\ Popped.node.expression.kind \notin {"assign", "variable"}

\* evaluate took the item the caller pushed and pushed one item with a value
\* or a location on what was below it
PushedOneResult ==
    /\ Cardinality(After("push")) = 1
    /\ Len(stk) = Len(pre.stk) + 1
    /\ SubSeq(stk, 1, Len(pre.stk)) = pre.stk
    /\ stk[Len(stk)].node = NoNode
    /\ stk[Len(stk)].val # Undefined \/ stk[Len(stk)].loc # Undefined

\* C1 as stated: every call of evaluate that returns normally without
\* delegating to a sub-evaluator pops one item and pushes one item carrying
\* the value or location, so the depth after the call is the depth before it.
C1_PopOnePushOne == NotDelegated => PushedOneResult

\* C1 as amended: that holds of the boolean, number and string nodes; for an
\* expressionstatement whose expression is an array, number, string or boolean
\* literal, evaluate pops the item and pushes nothing, so the depth is one
\* less.
C1_LiteralPushesStatementPushesNone ==
    NotDelegated =>
        IF Popped.node.kind = "expressionstatement"
        THEN StatementOf({"array", "number", "string", "boolean"}) =>
                 After("push") = {} /\ stk = pre.stk
        ELSE PushedOneResult

C1_Witness ==
    /\ NotDelegated
    /\ Popped.node.kind = "number"
    /\ pre.stk # <<>>
    /\ stk[Len(stk)].val = IntV(8)

\* ------------------------------------------------------------------------
\* C2
\* ------------------------------------------------------------------------
\* C2: in run the stack is empty before each top-level statement is pushed
\* and empty when run returns, so no item of one statement's evaluation is
\* on the stack when the next is pushed (the sub-evaluators pop one item and
\* push one).
C2_NoLeakBetweenStatements ==
    (phase \in {"run", "done"} /\ err = NoErr) => stk = <<>>

\* ------------------------------------------------------------------------
\* C3
\* ------------------------------------------------------------------------
\* the node evaluate dispatches on: the popped node, or the expression of a
\* popped expressionstatement
DispatchedKind ==
    IF Popped.node.kind = "expressionstatement"
    THEN Popped.node.expression.kind ELSE Popped.node.kind

UnknownKinds == {"call", "echo", "offsetlookup"}

\* C3: when the node evaluate dispatches on (the popped node or the inner
\* expression of a popped expressionstatement) has a kind it does not
\* recognise, evaluate fails with the fatal error naming that kind and does
\* not return normally.
C3_UnknownKindIsFatal ==
    (Handled("evaluate") /\ DispatchedKind \in UnknownKinds) =>
        /\ err.msg = UnknownExpressionType
        /\ err.arg = DispatchedKind

\* ------------------------------------------------------------------------
\* C4
\* ------------------------------------------------------------------------
\* C4: evaluate on an expressionstatement whose expression is an array,
\* number, string or boolean evaluates nothing: it pushes nothing, calls no
\* sub-evaluator and leaves the environment table and the rest of the stack
\* as they were.
C4_LiteralStatementIsNoOp ==
    (Handled("evaluate") /\ StatementOf({"array", "number", "string", "boolean"})) =>
        /\ err = NoErr
        /\ After("push") = {}
        /\ After("call") = {}
        /\ Len(log) = 3
        /\ env = pre.env
        /\ stk = pre.stk

C4_Witness ==
    /\ Handled("evaluate")
    /\ StatementOf({"array"})
    /\ pre.stk # <<>>
    /\ pre.env # EnvNew
    /\ stk = pre.stk

\* ------------------------------------------------------------------------
\* C5
\* ------------------------------------------------------------------------
EmptyBindings == [hstore |-> {}, vslot |-> {}, vstore |-> {}]

\* C5: in every reachable state environment 0 exists, has type and name
\* "global" and no enclosing environment; right after construction its
\* bindings are empty and the current environment index is 0.
C5_GlobalEnvironment ==
    /\ 0 \in DOMAIN env.env
    /\ env.env[0].type = "global"
    /\ env.env[0].name = "global"
    /\ env.env[0].outer = Null
    /\ (phase = "idle" /\ ncalls = 0 /\ log = <<>>) =>
            /\ env.env[0].bind = EmptyBindings
            /\ env.idx = 0

C5_Witness ==
    /\ phase = "done"
    /\ ncalls > 0
    /\ env.env[0].bind.vslot # {}
    /\ env.env[0].name = "global"

\* ------------------------------------------------------------------------
\* C6
\* ------------------------------------------------------------------------
Spellings1337 ==
    {<<"0", "x", "5", "3", "9">>, <<"0", "2", "4", "7", "1">>,
     <<"0", "b", "1", "0", "1", "0", "0", "1", "1", "1", "0", "0", "1">>,
     <<"1", "3", "3", "7", "e", "0">>}

\* C6: spellings of one number push one value; 0x539, 02471, 0b10100111001
\* and 1337e0 all push 1337.
C6_SpellingsOf1337 ==
    (Handled("evaluate") /\ Popped.node.kind = "number"
        /\ Popped.node.value.s \in Spellings1337) =>
        /\ err = NoErr
        /\ stk[Len(stk)].val = IntV(1337)

\* ------------------------------------------------------------------------
\* C7
\* ------------------------------------------------------------------------
EmptySubscript ==
    /\ Handled("evaluateOffset")
    /\ Popped.node.kind = "offsetlookup"
    /\ Falsy(Popped.node.offset)

\* C7: evaluateOffset on an empty subscript fails with "Cannot use [] for
\* reading" whenever the intent is not WRITE (READ or absent), before it
\* pushes or evaluates anything; with WRITE the empty subscript is accepted,
\* the base is pushed and that error is not raised.
C7_EmptySubscript ==
    EmptySubscript =>
        IF Popped.inst # "WRITE"
        THEN /\ err.msg = CannotUseForReading
             /\ Len(log) = 4
             /\ After("push") = {} /\ After("call") = {}
             /\ stk = pre.stk
        ELSE /\ err.msg # CannotUseForReading
             /\ After("push") # {}
             /\ \A i \in After("push") : i = 4 =>
                    log[i].item = NodeItem(Popped.node.what, "WRITE")

C7_Witness ==
    /\ EmptySubscript
    /\ Popped.inst = NoInst
    /\ err.msg = CannotUseForReading

\* ------------------------------------------------------------------------
\* C8
\* ------------------------------------------------------------------------
\* C8: the normalization of a key maps true to 1 and false to 0, leaves the
\* string "08" a string, and maps the strings "0" and "-0" to the integer 0,
\* in READ mode and in WRITE mode.
C8_KeyNormalization ==
    \A i \in KeyEvents :
        /\ log[i].s \in {"READ", "WRITE"}
        /\ log[i].w = Bool(TRUE) => log[i].v = IntV(1)
        /\ log[i].w = Bool(FALSE) => log[i].v = IntV(0)
        /\ log[i].w = Str(<<"0", "8">>) => log[i].v = Str(<<"0", "8">>)
        /\ log[i].w = Str(<<"0">>) => log[i].v = IntV(0)
        /\ log[i].w = Str(<<"-", "0">>) => log[i].v = IntV(0)

C8_Witness ==
    \E i \in KeyEvents :
        /\ log[i].s = "WRITE"
        /\ log[i].w = Str(<<"0", "8">>)
        /\ log[i].v = Str(<<"0", "8">>)

\* ------------------------------------------------------------------------
\* C9
\* ------------------------------------------------------------------------
\* C9: the normalization of a key is idempotent: normalizing the normalized
\* key of a boolean, a number or a string gives that key again.
C9_NormalizationIdempotent ==
    \A i \in KeyEvents :
        typeof(log[i].w) \in {"boolean", "number", "string"} =>
            IF log[i].s = "READ"
            THEN NormalizeRead(log[i].v).key = log[i].v
            ELSE NormalizeWrite(log[i].v).key = log[i].v

C9_Witness ==
    \E i \in KeyEvents :
        /\ log[i].s = "READ"
        /\ log[i].w = Number(Str(<<"-", "1", ".", "5">>))
        /\ log[i].v = IntV(-1)

\* ------------------------------------------------------------------------
\* C10
\* ------------------------------------------------------------------------
\* a READ of a string base with an integer key
StringRead(i) ==
    /\ Handled("evaluateOffset")
    /\ log[i].e = "key"
    /\ log[i].s = "READ"
    /\ typeof(log[i].item.val) = "string"
    /\ typeof(log[i].v) = "number"
    /\ ~log[i].v.nan

\* the position the key k designates in a string of length n
ExpectedPosition(k, n) == IF k < 0 THEN k + n * Scale ELSE k

\* the result of reading str at position p, an integer times Scale
ExpectedRead(str, p) ==
    IF 0 <= p /\ p < Len(str) * Scale
    THEN /\ stk[Len(stk)] = ValItem(Str(<<str[(p \div Scale) + 1]>>))
         /\ DiagEvents(UninitializedStringOffset) = {}
    ELSE /\ stk[Len(stk)] = ValItem(Undefined)
         /\ Cardinality(DiagEvents(UninitializedStringOffset)) = 1

\* C10: a READ of a string s with the integer key k reads at k + length(s)
\* when k is negative and at k otherwise; it pushes the character there when
\* the position is within the string, and otherwise pushes undefined and
\* emits the "Uninitialized string offset" notice, in that case only.
C10_StringRead ==
    \A i \in 1..Len(log) :
        StringRead(i) =>
            /\ err = NoErr
            /\ Len(stk) >= 1
            /\ ExpectedRead(log[i].item.val.s,
                            ExpectedPosition(log[i].v.n, Len(log[i].item.val.s)))

C10_Witness ==
    \E i \in 1..Len(log) :
        /\ StringRead(i)
        /\ log[i].item.val = Str(<<"a", "b", "c">>)
        /\ log[i].v = IntV(-1)
        /\ stk[Len(stk)] = ValItem(Str(<<"c">>))

\* ------------------------------------------------------------------------
\* C11
\* ------------------------------------------------------------------------
UndefinedOffset == "Notice: Undefined offset: "

\* the key of a READ is settled and the base is an array
ArrayRead(i) ==
    /\ Handled("evaluateOffset")
    /\ log[i].e = "key"
    /\ log[i].s = "READ"
    /\ typeof(log[i].item.val) = "object"
    /\ log[i].item.val # Null
    /\ log[i].item.val.type = "IArray"

\* the environment the evaluation of an operand leaves: a variable that is
\* not bound yet is declared
DeclaredBy(e, node) == IF node.kind = "variable" THEN Declare(e, node.name) ELSE e

\* the entry of the key k in the entries elt of an array
Entries(elt, k) == {j \in 1..Len(elt) : elt[j].k = k}

C11_PresentKeyRead ==
    \E i \in 1..Len(log) :
        /\ ArrayRead(i)
        /\ log[i].v = IntV(0)
        /\ stk[Len(stk)] = ValItem(Str(<<"x">>))

\* ------------------------------------------------------------------------
\* C12
\* ------------------------------------------------------------------------
ScalarAsArray == "Warning:  Cannot use a scalar value as an array"

\* the key of a WRITE is settled and the base is a location whose type is
\* one of types
LocationWrite(i, types) ==
    /\ Handled("evaluateOffset")
    /\ log[i].e = "key"
    /\ log[i].s = "WRITE"
    /\ log[i].item.loc # Undefined
    /\ log[i].item.loc.type \in types

ScalarTypes == {Str(<<"number">>), Str(<<"boolean">>)}

\* C12: a WRITE whose base location is a variable holding a scalar (a
\* boolean or a number) emits the "Cannot use a scalar value as an array"
\* warning, does not throw, pushes one item without a location and leaves
\* the variable's stored value unchanged.
C12_ScalarWriteWarns ==
    \A i \in 1..Len(log) :
        LocationWrite(i, ScalarTypes) =>
            /\ err = NoErr
            /\ Cardinality(DiagEvents(ScalarAsArray)) = 1
            /\ Len(stk) = Len(pre.stk) + 1
            /\ stk[Len(stk)].loc = Undefined
            /\ env = DeclaredBy(DeclaredBy(pre.env, Popped.node.what), Popped.node.offset)

\* ------------------------------------------------------------------------
\* C13
\* ------------------------------------------------------------------------
\* evaluateOffset with WRITE intent on $a[][k] or $a[][]: the base is itself
\* a subscript, an empty one, of a variable
NestedWrite ==
    /\ Handled("evaluateOffset")
    /\ Popped.inst = "WRITE"
    /\ Popped.node.kind = "offsetlookup"
    /\ Popped.node.what.kind = "offsetlookup"
    /\ Popped.node.what.what.kind = "variable"
    /\ Falsy(Popped.node.what.offset)

\* C13: a WRITE through nested subscripts over an undeclared variable
\* ($a[][0]) completes without a fatal error; afterwards the variable is
\* bound and the one item pushed carries the location of the array created
\* for the missing level.
C13_NestedWriteCompletes ==
    NestedWrite =>
        /\ err = NoErr
        /\ Bound(env, Popped.node.what.what.name)
        /\ Len(stk) = Len(pre.stk) + 1
        /\ stk[Len(stk)].loc # Undefined

\* ------------------------------------------------------------------------
\* C14
\* ------------------------------------------------------------------------
\* the key of a READ is settled and the base is an object
ObjectRead(i) ==
    /\ Handled("evaluateOffset")
    /\ log[i].e = "key"
    /\ log[i].s = "READ"
    /\ log[i].item.val = IObject

\* C14: when evaluateOffset reaches the object case, an object base in READ
\* mode or an object-typed location in WRITE mode, it fails with a fatal
\* error; it never returns normally from that case.
C14_ObjectCaseIsFatal ==
    \A i \in 1..Len(log) :
        (ObjectRead(i) \/ LocationWrite(i, {Str(<<"object">>)})) => err # NoErr

\* ------------------------------------------------------------------------
\* C15
\* ------------------------------------------------------------------------
\* evaluateOffset returned normally from its READ or its WRITE branch
OffsetReturned ==
    /\ Handled("evaluateOffset")
    /\ err = NoErr
    /\ Popped.node.kind = "offsetlookup"
    /\ Popped.inst \in {"READ", "WRITE"}

\* C15: every call of evaluateOffset that returns normally has popped the
\* offsetlookup item and the items it pushed itself and has pushed exactly
\* one result item: the depth on return is the depth on entry (the stack
\* below the offsetlookup item plus one item), and no pending node is left.
C15_OffsetPopsWhatItPushed ==
    OffsetReturned =>
        /\ Len(stk) = Len(pre.stk) + 1
        /\ SubSeq(stk, 1, Len(pre.stk)) = pre.stk
        /\ stk[Len(stk)].node = NoNode
        /\ \A j \in 1..Len(stk) : j > Len(pre.stk) => stk[j].node = NoNode

\* ------------------------------------------------------------------------
\* C16
\* ------------------------------------------------------------------------
\* the calls of evaluate() that popped item
Evaluations(item) ==
    {i \in 1..(Len(log) - 1) :
        /\ log[i].e = "call" /\ log[i].s = "evaluate"
        /\ log[i + 1].e = "pop" /\ log[i + 1].item = item}

\* evaluateOffset in READ mode with a subscript
SubscriptRead ==
    /\ Handled("evaluateOffset")
    /\ Popped.node.kind = "offsetlookup"
    /\ Popped.inst = "READ"
    /\ ~Falsy(Popped.node.offset)

\* C16: in READ mode with a subscript present, evaluateOffset evaluates the
\* offset expression, and does so before it evaluates the base expression,
\* for every base, also one that turns out undefined or null.
C16_OffsetEvaluatedBeforeBase ==
    SubscriptRead =>
        \A j \in Evaluations(NodeItem(Popped.node.what, "READ")) :
            \E i \in Evaluations(NodeItem(Popped.node.offset, "READ")) : i < j

\* ------------------------------------------------------------------------
\* C17
\* ------------------------------------------------------------------------
SubEvaluators == {"evaluateAssign", "evaluateVariable", "evaluateArray", "evaluateGlobal"}

\* the calls of a sub-evaluator on the base of the lookup: the item on top of
\* the stack at the call is the one pushed just before it
BaseDelegations ==
    {i \in 2..Len(log) :
        /\ log[i].e = "call" /\ log[i].s \in SubEvaluators
        /\ log[i - 1].e = "push"
        /\ log[i - 1].item.node = Popped.node.what}

\* C17: in WRITE mode the WRITE intent evaluateOffset attaches to the item of
\* the base is on the item on top of the stack when the sub-evaluator of the
\* base is invoked through evaluate: the re-push of the node keeps the tag.
C17_WriteIntentReachesSubEvaluator ==
    (/\ Handled("evaluateOffset")
     /\ Popped.node.kind = "offsetlookup"
     /\ Popped.inst = "WRITE") =>
        \A i \in BaseDelegations : log[i - 1].item.inst = "WRITE"

\* ------------------------------------------------------------------------
\* C18
\* ------------------------------------------------------------------------
\* C18: in WRITE mode with an array as the base location, the single item
\* evaluateOffset pushes carries a location that identifies the storage of
\* that array (environment index and slot) and has the normalized key as its
\* sub-offset.
C18_ArrayWriteLocation ==
    \A i \in 1..Len(log) :
        LocationWrite(i, {Str(<<"array">>)}) =>
            /\ err = NoErr
            /\ Len(stk) = Len(pre.stk) + 1
            /\ stk[Len(stk)].loc # Undefined
            /\ stk[Len(stk)].loc.idx = log[i].item.loc.idx
            /\ stk[Len(stk)].loc.vstoreId = log[i].item.loc.vstoreId
            /\ stk[Len(stk)].loc.offset = log[i].v

\* ------------------------------------------------------------------------
\* C19
\* ------------------------------------------------------------------------
IllegalOffsetTypeWarning == "Warning: Illegal offset type "

\* the keys settled from a value that is no boolean, number or string and
\* is not undefined
IllegalKeys ==
    {i \in KeyEvents :
        typeof(log[i].w) \notin {"boolean", "number", "string", "undefined"}}

\* the warning is emitted for the key settled at i
WarnedIllegal(i) ==
    /\ i > 1
    /\ log[i - 1].e = "diag"
    /\ log[i - 1].s = IllegalOffsetTypeWarning
    /\ log[i - 1].v = log[i].w

\* C19: for every evaluated key whose type is not boolean, number or string
\* (and that is not undefined) the normalization emits the "Illegal offset
\* type" warning, does not throw, and yields the empty string as the key.
C19_IllegalKeyIsEmptyString ==
    \A i \in IllegalKeys : WarnedIllegal(i) /\ log[i].v = Str(<<>>)

\* what the code does with such a key: the warning, and the integer key 0
C19_IllegalKeyIsZero ==
    \A i \in IllegalKeys : WarnedIllegal(i) /\ log[i].v = IntV(0)

\* ------------------------------------------------------------------------
\* C20
\* ------------------------------------------------------------------------
\* a decimal digit sequence without a leading zero
NoLeadingZero(s) == s # <<>> /\ DigitVal(s[1], 10) >= 1 /\ AllDigits(s, 10)

\* "0", "-0", or a decimal digit sequence without a leading zero that a '-'
\* may precede
CanonicalDecInt(s) ==
    \/ s = <<"0">>
    \/ s = <<"-", "0">>
    \/ NoLeadingZero(s)
    \/ s # <<>> /\ s[1] = "-" /\ NoLeadingZero(SubStr(s, 2))

\* the integer a canonical string denotes
CanonicalValue(s) ==
    IF s[1] = "-" THEN IntV(-DigitsVal(SubStr(s, 2), 10)) ELSE IntV(DigitsVal(s, 10))

StringKeys == {i \in KeyEvents : typeof(log[i].w) = "string"}

\* C20: the normalization converts a string key to the integer it denotes
\* exactly when the string is "0", "-0" or a decimal digit sequence without
\* leading zero that a '-' may precede ("-10" and "10" both become
\* integers); every other string is kept as a string key.
C20_CanonicalStringsBecomeIntegers ==
    \A i \in StringKeys :
        IF CanonicalDecInt(log[i].w.s)
        THEN log[i].v = CanonicalValue(log[i].w.s)
        ELSE log[i].v = log[i].w

\* the same with the strings "10" and "" left out: the other keys are
\* converted as stated
C20_OtherStrings ==
    \A i \in StringKeys :
        log[i].w.s \notin {<<"1", "0">>, <<>>} =>
            IF CanonicalDecInt(log[i].w.s)
            THEN log[i].v = CanonicalValue(log[i].w.s)
            ELSE log[i].v = log[i].w

\* ------------------------------------------------------------------------
\* C21
\* ------------------------------------------------------------------------
UndefinedVariable == "Notice: Undefined variable "

\* the keys settled from an evaluated subscript
EvaluatedKeys ==
    {i \in KeyEvents : Handled("evaluateOffset") /\ ~Falsy(Popped.node.offset)}

\* the undefined-variable notice is emitted for the key settled at i
NoticedUndefined(i) ==
    /\ i > 1
    /\ log[i - 1].e = "diag"
    /\ log[i - 1].s = UndefinedVariable

\* the normalization of the other mode on the value the key at i came from
OtherMode(i) ==
    IF log[i].s = "READ" THEN NormalizeWrite(log[i].w) ELSE NormalizeRead(log[i].w)

\* the key settled at i and its diagnostics are those of the other mode
SameAsOtherMode(i) ==
    /\ log[i].v = OtherMode(i).key
    /\ WarnedIllegal(i) <=> OtherMode(i).warn
    /\ NoticedUndefined(i) <=> OtherMode(i).notice

\* C21: for every evaluated key value, the undefined one of an undeclared
\* variable included, the normalization of READ mode and the one of WRITE
\* mode yield the same key and emit the same diagnostics.
C21_ReadAndWriteNormalizeAlike ==
    \A i \in EvaluatedKeys : SameAsOtherMode(i)

\* the two modes agree on every key value that is not undefined
C21_DefinedKeysAlike ==
    \A i \in EvaluatedKeys : log[i].w # Undefined => SameAsOtherMode(i)

====
